---- MODULE Spec2Model ----
(***************************************************************************)
(* Matrix3x2 (src/matrix3x2.js): a mutable 2x3 affine matrix stored in a   *)
(* six element buffer [0..5], and the point it is applied to.              *)
(*                                                                         *)
(* Numbers are exact: a finite value is a reduced fraction <<n, d>> with   *)
(* d > 0, and every non-finite value of the buffer (Infinity, -Infinity,   *)
(* NaN) is the one value NonFinite.  Rounding to 32 bit floats is not      *)
(* modelled; Math.cos and Math.sin are taken at quarter turns, where they  *)
(* are -1, 0 or 1.                                                         *)
(***************************************************************************)
EXTENDS Integers, Sequences, FiniteSets, TLC

(* ------------------------------ bounds --------------------------------- *)

\* Method calls made after construction (Spec).
MaxOps == 3

\* Method calls made from a sampled state (SpecSampled).
MaxSampledOps == 1

\* The matrix objects.
Mats == {"T1", "T2", "T3"}

(* ---------------------------- the numbers ------------------------------ *)

Abs(n) == IF n < 0 THEN -n ELSE n

RECURSIVE GCD(_, _)
GCD(m, n) == IF n = 0 THEN m ELSE GCD(n, m % n)

\* Infinity, -Infinity and NaN.
NonFinite == <<0, 0>>

Finite(v) == v[2] # 0

\* The number n / d, d # 0, as a reduced fraction with a positive denominator.
Frac(n, d) ==
    LET g == GCD(Abs(n), Abs(d))
        s == IF d < 0 THEN -1 ELSE 1
    IN  <<(s * n) \div g, (s * d) \div g>>

Num(n) == <<n, 1>>

\* v + w: a non-finite operand gives a non-finite sum.
Add(v, w) == IF Finite(v) /\ Finite(w)
             THEN Frac(v[1] * w[2] + w[1] * v[2], v[2] * w[2])
             ELSE NonFinite

\* -v
Neg(v) == IF Finite(v) THEN <<-v[1], v[2]>> ELSE NonFinite

\* v * w: a non-finite operand gives a non-finite product (0 * Infinity is NaN).
Mul(v, w) == IF Finite(v) /\ Finite(w)
             THEN Frac(v[1] * w[1], v[2] * w[2])
             ELSE NonFinite

\* 1 / v: 1 / 0 is an infinity.  1 / Infinity is 0 and 1 / NaN is NaN; invert
\* multiplies either by a coefficient that is itself non-finite (see
\* AllOrNothing), which gives NaN both ways, so NonFinite stands for both.
Recip(v) == IF Finite(v) /\ v[1] # 0 THEN Frac(v[2], v[1]) ELSE NonFinite

v (+) w == Add(v, w)
v (-) w == Add(v, Neg(w))
v ** w == Mul(v, w)

(* --------------------------- Math.cos, Math.sin ------------------------ *)

\* Angles are counted in quarter turns (angle * PI / 2 radians).
cos(angle) == Num(CASE angle % 4 = 0 -> 1
                    [] angle % 4 = 1 -> 0
                    [] angle % 4 = 2 -> -1
                    [] OTHER         -> 0)

sin(angle) == Num(CASE angle % 4 = 0 -> 0
                    [] angle % 4 = 1 -> 1
                    [] angle % 4 = 2 -> 0
                    [] OTHER         -> -1)

(* ----------------------------- the methods ----------------------------- *)
(* h is the heap: the buffer of every matrix object.  A method gives the   *)
(* heap it leaves; its assignments are made in the order of the source, so *)
(* that a read of other.buffer sees what was already written when other    *)
(* is this.                                                                *)

\* new Float32Array(6)
NewBuffer == [i \in 0..5 |-> Num(0)]

\* set with the copy made the other way round (other.buffer.set(this.buffer)).
setReversed(h, this, other) == [h EXCEPT ![other] = h[this]]

\* this.buffer.set(other.buffer): copies the six values (a copy onto itself
\* leaves them as they are).
set(h, this, other) == [h EXCEPT ![this] = h[other]]

\* apply that reads vector.x for the new y after it was overwritten.
applyInPlace(h, this, vector) ==
    LET x1 == ((h[this][0] ** vector.x) (+) (h[this][1] ** vector.y)) (+) h[this][2]
    IN  [x |-> x1,
         y |-> ((h[this][3] ** x1) (+) (h[this][4] ** vector.y)) (+) h[this][5]]

apply(h, this, vector) ==
    LET x == vector.x
        y == vector.y
    IN  [x |-> ((h[this][0] ** x) (+) (h[this][1] ** y)) (+) h[this][2],
         y |-> ((h[this][3] ** x) (+) (h[this][4] ** y)) (+) h[this][5]]

\* identity that resets the linear part only and keeps the offsets.
identityKeepsOffset(h, this) ==
    [h EXCEPT ![this] =
        [i \in 0..5 |-> CASE i \in {0, 4} -> Num(1)
                          [] i \in {1, 3} -> Num(0)
                          [] OTHER        -> h[this][i]]]

identity(h, this) ==
    [h EXCEPT ![this] = [i \in 0..5 |-> IF i \in {0, 4} THEN Num(1) ELSE Num(0)]]

\* translate that adds x and y to the offsets without the linear part.
translateUnmapped(h, this, x, y) ==
    [h EXCEPT ![this][2] = h[this][2] (+) x, ![this][5] = h[this][5] (+) y]

translate(h, this, x, y) ==
    LET h1 == [h EXCEPT ![this][2] =
                  h[this][2] (+) ((h[this][0] ** x) (+) (h[this][1] ** y))]
    IN  [h1 EXCEPT ![this][5] =
            h1[this][5] (+) ((h1[this][3] ** x) (+) (h1[this][4] ** y))]

translateAbsolute(h, this, x, y) ==
    LET h1 == [h EXCEPT ![this][2] = h[this][2] (+) x]
    IN  [h1 EXCEPT ![this][5] = h1[this][5] (+) y]

\* rotate that turns the linear part and leaves the offsets.
rotateLinearOnly(h, this, angle) ==
    LET c == cos(angle)
        s == sin(angle)
        m == h[this]
    IN  [h EXCEPT ![this] =
            [i \in 0..5 |->
                CASE i = 0 -> (m[0] ** c) (-) (m[3] ** s)
                  [] i = 1 -> (m[1] ** c) (-) (m[4] ** s)
                  [] i = 3 -> (m[0] ** s) (+) (m[3] ** c)
                  [] i = 4 -> (m[1] ** s) (+) (m[4] ** c)
                  [] OTHER -> m[i]]]

rotate(h, this, angle) ==
    LET c   == cos(angle)
        s   == sin(angle)
        m00 == h[this][0]
        m10 == h[this][1]
        m20 == h[this][2]
        m01 == h[this][3]
        m11 == h[this][4]
        m21 == h[this][5]
    IN  [h EXCEPT ![this] =
            [i \in 0..5 |->
                CASE i = 0 -> (m00 ** c) (-) (m01 ** s)
                  [] i = 1 -> (m10 ** c) (-) (m11 ** s)
                  [] i = 2 -> (m20 ** c) (-) (m21 ** s)
                  [] i = 3 -> (m00 ** s) (+) (m01 ** c)
                  [] i = 4 -> (m10 ** s) (+) (m11 ** c)
                  [] OTHER -> (m20 ** s) (+) (m21 ** c)]]

\* scale that leaves the offsets buffer[2] and buffer[5].
scaleLinearOnly(h, this, factor) ==
    [h EXCEPT ![this] =
        [i \in 0..5 |-> IF i \in {2, 5} THEN h[this][i] ELSE h[this][i] ** factor]]

scale(h, this, factor) ==
    [h EXCEPT ![this] = [i \in 0..5 |-> h[this][i] ** factor]]

\* multiply that forgets to add other.buffer[2] to buffer[2].
multiplyNoOffset(h, this, other) ==
    LET m == h[this]
        o == h[other]
    IN  [h EXCEPT ![this] =
            [i \in 0..5 |->
                CASE i = 0 -> (m[0] ** o[0]) (+) (m[3] ** o[1])
                  [] i = 1 -> (m[1] ** o[0]) (+) (m[4] ** o[1])
                  [] i = 2 -> (m[2] ** o[0]) (+) (m[5] ** o[1])
                  [] i = 3 -> (m[0] ** o[3]) (+) (m[3] ** o[4])
                  [] i = 4 -> (m[1] ** o[3]) (+) (m[4] ** o[4])
                  [] OTHER -> ((m[2] ** o[3]) (+) (m[5] ** o[4])) (+) o[5]]]

\* multiply that composes the other way round: other is applied first.
multiplyOtherFirst(h, this, other) ==
    LET m == h[this]
        o == h[other]
    IN  [h EXCEPT ![this] =
            [i \in 0..5 |->
                CASE i = 0 -> (m[0] ** o[0]) (+) (m[1] ** o[3])
                  [] i = 1 -> (m[0] ** o[1]) (+) (m[1] ** o[4])
                  [] i = 2 -> ((m[0] ** o[2]) (+) (m[1] ** o[5])) (+) m[2]
                  [] i = 3 -> (m[3] ** o[0]) (+) (m[4] ** o[3])
                  [] i = 4 -> (m[3] ** o[1]) (+) (m[4] ** o[4])
                  [] OTHER -> ((m[3] ** o[2]) (+) (m[4] ** o[5])) (+) m[5]]]

multiply(h, this, other) ==
    LET m00 == h[this][0]
        m10 == h[this][1]
        m20 == h[this][2]
        m01 == h[this][3]
        m11 == h[this][4]
        m21 == h[this][5]
        h0  == [h  EXCEPT ![this][0] =
                   (m00 ** h[other][0]) (+) (m01 ** h[other][1])]
        h1  == [h0 EXCEPT ![this][1] =
                   (m10 ** h0[other][0]) (+) (m11 ** h0[other][1])]
        h2  == [h1 EXCEPT ![this][2] =
                   ((m20 ** h1[other][0]) (+) (m21 ** h1[other][1])) (+) h1[other][2]]
        h3  == [h2 EXCEPT ![this][3] =
                   (m00 ** h2[other][3]) (+) (m01 ** h2[other][4])]
        h4  == [h3 EXCEPT ![this][4] =
                   (m10 ** h3[other][3]) (+) (m11 ** h3[other][4])]
    IN  [h4 EXCEPT ![this][5] =
            ((m20 ** h4[other][3]) (+) (m21 ** h4[other][4])) (+) h4[other][5]]

\* invert that does not negate buffer[1] and buffer[3].
invertNoNegate(h, this) ==
    LET m == h[this]
        i == Recip((m[0] ** m[4]) (-) (m[1] ** m[3]))
    IN  [h EXCEPT ![this] =
            [k \in 0..5 |->
                CASE k = 0 -> i ** m[4]
                  [] k = 1 -> i ** m[1]
                  [] k = 2 -> i ** ((m[1] ** m[5]) (-) (m[2] ** m[4]))
                  [] k = 3 -> i ** m[3]
                  [] k = 4 -> i ** m[0]
                  [] OTHER -> i ** ((m[2] ** m[3]) (-) (m[0] ** m[5]))]]

invert(h, this) ==
    LET m00 == h[this][0]
        m10 == h[this][1]
        m20 == h[this][2]
        m01 == h[this][3]
        m11 == h[this][4]
        m21 == h[this][5]
        i   == Recip((m00 ** m11) (-) (m10 ** m01))
    IN  [h EXCEPT ![this] =
            [k \in 0..5 |->
                CASE k = 0 -> i ** m11
                  [] k = 1 -> i ** Neg(m10)
                  [] k = 2 -> i ** ((m10 ** m21) (-) (m20 ** m11))
                  [] k = 3 -> i ** Neg(m01)
                  [] k = 4 -> i ** m00
                  [] OTHER -> i ** ((m20 ** m01) (-) (m00 ** m21))]]

\* get x, get y
getX(h, this) == h[this][2]
getY(h, this) == h[this][5]

(* ------------------------------ the state ------------------------------ *)

VARIABLES
    buffer,     \* buffer[m][0..5]: the six coefficients of matrix object m
    vector,     \* the point object handed to apply: [x, y]
    last,       \* the last call: its name, receiver, arguments, the state it
                \* started from and the object it returned
    left        \* the number of calls still to be made

vars == <<buffer, vector, last, left>>

Coefs(a, b, c, d, e, f) ==
    [i \in 0..5 |-> CASE i = 0 -> a [] i = 1 -> b [] i = 2 -> c
                      [] i = 3 -> d [] i = 4 -> e [] OTHER -> f]

Ints(a, b, c, d, e, f) == Coefs(Num(a), Num(b), Num(c), Num(d), Num(e), Num(f))

Point(x, y) == [x |-> x, y |-> y]

\* Arguments of the calls.
Points  == {Point(Num(0), Num(0)), Point(Num(1), Num(2)), Point(Num(-1), Frac(1, 2))}
Offsets == {<<Num(1), Num(0)>>, <<Num(2), Num(0)>>, <<Num(-1), Num(2)>>}
Angles  == {1, -1}
Factors == {Num(3), Frac(-1, 2)}

\* Coefficients a caller may hold in a buffer: as constructed, the identity,
\* a quarter turn, a shear with an offset (determinant 1), a matrix of
\* determinant 2, a reflection with an offset (determinant -1), a singular one.
Samples ==
    {NewBuffer,
     Ints(1, 0, 0, 0, 1, 0),
     Ints(0, -1, 0, 1, 0, 0),
     Ints(2, 1, 1, 1, 1, -1),
     Ints(1, 2, 3, -1, 0, 1),
     Ints(0, 1, 2, 1, 0, 0),
     Ints(1, 2, 0, 2, 4, 1)}

\* The samples the third matrix is drawn from, and the points away from the
\* origin.
Samples3 ==
    {Ints(2, 1, 1, 1, 1, -1),
     Ints(1, 2, 3, -1, 0, 1)}

SampledPoints == Points \ {Point(Num(0), Num(0))}

NoCall ==
    [op |-> "new", this |-> "none", other |-> "none", args |-> <<>>,
     ret |-> "none", buffer |-> buffer, vector |-> vector]

\* Every matrix as its constructor leaves it, the point as the caller made it.
Init ==
    /\ buffer = [m \in Mats |-> NewBuffer]
    /\ vector \in Points
    /\ last = NoCall
    /\ left = MaxOps

\* The matrices hold sampled coefficients.
InitSampled ==
    /\ buffer \in [Mats -> Samples]
    /\ buffer["T3"] \in Samples3
    /\ vector \in SampledPoints
    /\ last = NoCall
    /\ left = MaxSampledOps

\* A call: what it started from and what it returns.
Call(op, this, other, args, ret) ==
    /\ left > 0
    /\ left' = left - 1
    /\ last' = [op |-> op, this |-> this, other |-> other, args |-> args,
                ret |-> ret, buffer |-> buffer, vector |-> vector]

Set(this, other) ==
    /\ Call("set", this, other, <<>>, this)
    /\ buffer' = set(buffer, this, other)
    /\ UNCHANGED vector

Apply(this) ==
    /\ Call("apply", this, "none", <<>>, "vector")
    /\ vector' = apply(buffer, this, vector)
    /\ UNCHANGED buffer

Identity(this) ==
    /\ Call("identity", this, "none", <<>>, this)
    /\ buffer' = identity(buffer, this)
    /\ UNCHANGED vector

Translate(this, x, y) ==
    /\ Call("translate", this, "none", <<x, y>>, this)
    /\ buffer' = translate(buffer, this, x, y)
    /\ UNCHANGED vector

TranslateAbsolute(this, x, y) ==
    /\ Call("translateAbsolute", this, "none", <<x, y>>, this)
    /\ buffer' = translateAbsolute(buffer, this, x, y)
    /\ UNCHANGED vector

Rotate(this, angle) ==
    /\ Call("rotate", this, "none", <<angle>>, this)
    /\ buffer' = rotate(buffer, this, angle)
    /\ UNCHANGED vector

Scale(this, factor) ==
    /\ Call("scale", this, "none", <<factor>>, this)
    /\ buffer' = scale(buffer, this, factor)
    /\ UNCHANGED vector

Multiply(this, other) ==
    /\ Call("multiply", this, other, <<>>, this)
    /\ buffer' = multiply(buffer, this, other)
    /\ UNCHANGED vector

Invert(this) ==
    /\ Call("invert", this, "none", <<>>, this)
    /\ buffer' = invert(buffer, this)
    /\ UNCHANGED vector

Next ==
    \/ \E this \in Mats, other \in Mats : Set(this, other)
    \/ \E this \in Mats : Apply(this)
    \/ \E this \in Mats : Identity(this)
    \/ \E this \in Mats, d \in Offsets : Translate(this, d[1], d[2])
    \/ \E this \in Mats, d \in Offsets : TranslateAbsolute(this, d[1], d[2])
    \/ \E this \in Mats, angle \in Angles : Rotate(this, angle)
    \/ \E this \in Mats, factor \in Factors : Scale(this, factor)
    \/ \E this \in Mats, other \in Mats : Multiply(this, other)
    \/ \E this \in Mats : Invert(this)

Spec == Init /\ [][Next]_vars

SpecSampled == InitSampled /\ [][Next]_vars

(* ------------------------------ sanity --------------------------------- *)

\* A buffer, and the point, is finite throughout or non-finite throughout:
\* what Recip relies on.
AllOrNothing ==
    /\ \A m \in Mats : \A i, j \in 0..5 : Finite(buffer[m][i]) = Finite(buffer[m][j])
    /\ Finite(vector.x) = Finite(vector.y)

(* ------------------------------ the claims ----------------------------- *)

\* The points the properties are evaluated at: the origin and both unit
\* points, which fix an affine map, and the points handed to apply.
TestPoints == Points \cup {Point(Num(1), Num(0)), Point(Num(0), Num(1))}

IdentityCoefs == Ints(1, 0, 0, 0, 1, 0)

\* The last call was op, made on a receiver other than its argument.
Did(op) == last.op = op
DidOnAnother(op) == last.op = op /\ last.this # last.other

\* p turned by angle about the origin, counter-clockwise.
Turned(angle, p) ==
    Point((cos(angle) ** p.x) (-) (sin(angle) ** p.y),
          (sin(angle) ** p.x) (+) (cos(angle) ** p.y))

\* a * e - b * d of six coefficients.
Det(m) == (m[0] ** m[4]) (-) (m[1] ** m[3])

\* C1 as the specification states it: multiply leaves a' = a*a2 + d*b2,
\* b' = a*d2 + d*e2, c' = a*c2 + d*f2 + c, d' = b*a2 + e*b2, e' = b*d2 + e*e2,
\* f' = b*c2 + e*f2 + f.
C1_AsStated ==
    DidOnAnother("multiply") =>
        LET s == last.buffer[last.this]
            o == last.buffer[last.other]
        IN  buffer[last.this] =
                Coefs((s[0] ** o[0]) (+) (s[3] ** o[1]),
                      (s[0] ** o[3]) (+) (s[3] ** o[4]),
                      ((s[0] ** o[2]) (+) (s[3] ** o[5])) (+) s[2],
                      (s[1] ** o[0]) (+) (s[4] ** o[1]),
                      (s[1] ** o[3]) (+) (s[4] ** o[4]),
                      ((s[1] ** o[2]) (+) (s[4] ** o[5])) (+) s[5])

\* C1, amended: for distinct self = [a,b,c,d,e,f] and other = [a2,..,f2],
\* self.multiply(other) leaves self holding a' = a*a2 + d*b2, b' = b*a2 + e*b2,
\* c' = c*a2 + f*b2 + c2, d' = a*d2 + d*e2, e' = b*d2 + e*e2,
\* f' = c*d2 + f*e2 + f2, and leaves other as it was.
C1_MultiplyCoefficients ==
    DidOnAnother("multiply") =>
        LET s == last.buffer[last.this]
            o == last.buffer[last.other]
        IN  /\ buffer[last.this] =
                Coefs((s[0] ** o[0]) (+) (s[3] ** o[1]),
                      (s[1] ** o[0]) (+) (s[4] ** o[1]),
                      ((s[2] ** o[0]) (+) (s[5] ** o[1])) (+) o[2],
                      (s[0] ** o[3]) (+) (s[3] ** o[4]),
                      (s[1] ** o[3]) (+) (s[4] ** o[4]),
                      ((s[2] ** o[3]) (+) (s[5] ** o[4])) (+) o[5])
            /\ buffer[last.other] = o

\* A multiply of two matrices whose product depends on the order.
C1_Witness ==
    /\ DidOnAnother("multiply")
    /\ buffer[last.this] # multiply(last.buffer, last.other, last.this)[last.other]
    /\ \A i \in 0..5 : Finite(buffer[last.this][i])

\* The matrix T1.multiply(T2).multiply(T3) leaves in T1, applied to p: T1 is
\* last.this after T1.multiply(T2), and t3 a third matrix.
Chained(t3, p) == apply(multiply(buffer, last.this, t3), last.this, p)

\* C2 as the specification states it: T1.multiply(T2).multiply(T3) applied to
\* p is T3 applied first, then T2, then T1.
C2_AsStated ==
    DidOnAnother("multiply") =>
        \A t3 \in Mats \ {last.this, last.other} : \A p \in TestPoints :
            Chained(t3, p) =
                apply(last.buffer, last.this,
                      apply(last.buffer, last.other, apply(last.buffer, t3, p)))

\* C2, amended: T1.multiply(T2).multiply(T3) applied to p is T1 applied to p
\* first, then T2, then T3: the receiver is applied first, the argument of
\* multiply last.
C2_ReceiverFirst ==
    DidOnAnother("multiply") =>
        \A t3 \in Mats \ {last.this, last.other} : \A p \in TestPoints :
            Chained(t3, p) =
                apply(last.buffer, t3,
                      apply(last.buffer, last.other, apply(last.buffer, last.this, p)))

\* A chain of three finite matrices on which the two orders differ.
C2_Witness ==
    /\ DidOnAnother("multiply")
    /\ \E t3 \in Mats \ {last.this, last.other} : \E p \in TestPoints :
          /\ Finite(Chained(t3, p).x)
          /\ Chained(t3, p) #
                apply(last.buffer, last.this,
                      apply(last.buffer, last.other, apply(last.buffer, t3, p)))

\* C3: invert() on a matrix of non-zero determinant det leaves a' = e/det,
\* b' = -b/det, c' = (b*f - c*e)/det, d' = -d/det, e' = a/det,
\* f' = (c*d - a*f)/det, and the inverted copy U of T maps T.apply(p) back
\* to p.
C3_InverseLaw ==
    (Did("invert") /\ Finite(Det(last.buffer[last.this]))
                   /\ Det(last.buffer[last.this]) # Num(0)) =>
        LET t   == last.buffer[last.this]
            u   == buffer[last.this]
            det == Det(t)
        IN  /\ u[0] ** det = t[4]
            /\ u[1] ** det = Neg(t[1])
            /\ u[2] ** det = (t[1] ** t[5]) (-) (t[2] ** t[4])
            /\ u[3] ** det = Neg(t[3])
            /\ u[4] ** det = t[0]
            /\ u[5] ** det = (t[2] ** t[3]) (-) (t[0] ** t[5])
            /\ \A i \in 0..5 : Finite(u[i])
            /\ \A T \in Mats \ {last.this} :
                  buffer[T] = t =>
                      \A p \in TestPoints :
                          apply(buffer, last.this, apply(buffer, T, p)) = p

\* An inverted copy of a matrix with an offset whose determinant is not 1.
C3_Witness ==
    /\ Did("invert")
    /\ Det(last.buffer[last.this]) = Num(2)
    /\ last.buffer[last.this][2] # Num(0)
    /\ \E T \in Mats \ {last.this} : buffer[T] = last.buffer[last.this]

\* C4 as the specification states it: after T.rotate(angle) the matrix maps p
\* to what T mapped the turned p to (the rotation happens first).
C4_AsStated ==
    Did("rotate") =>
        \A p \in TestPoints :
            apply(buffer, last.this, p) =
                apply(last.buffer, last.this, Turned(last.args[1], p))

\* C4, amended: after T.rotate(angle), a quarter-turn angle, the matrix maps
\* p to what T mapped p to, turned by angle about the origin: the rotation is
\* composed on the left and happens after the prior linear part and offset.
C4_RotationLast ==
    Did("rotate") =>
        \A p \in TestPoints :
            apply(buffer, last.this, p) =
                Turned(last.args[1], apply(last.buffer, last.this, p))

\* A rotate of a finite matrix that does not commute with the rotation.
C4_Witness ==
    /\ Did("rotate")
    /\ \E p \in TestPoints :
          /\ Finite(apply(buffer, last.this, p).x)
          /\ apply(buffer, last.this, p) #
                apply(last.buffer, last.this, Turned(last.args[1], p))

\* C5: translate(dx, dy) sets c' = c + a*dx + b*dy, f' = f + d*dx + e*dy and
\* leaves a, b, d, e, so the matrix maps (x, y) to what it mapped
\* (x + dx, y + dy) to; on the identity turned a quarter, translate(1, 0)
\* leaves a matrix that maps (0, 0) to (0, 1).
C5_TranslateLocal ==
    Did("translate") =>
        LET t  == last.buffer[last.this]
            u  == buffer[last.this]
            dx == last.args[1]
            dy == last.args[2]
        IN  /\ u = Coefs(t[0], t[1], t[2] (+) ((t[0] ** dx) (+) (t[1] ** dy)),
                         t[3], t[4], t[5] (+) ((t[3] ** dx) (+) (t[4] ** dy)))
            /\ \A p \in TestPoints :
                  apply(buffer, last.this, p) =
                      apply(last.buffer, last.this, Point(p.x (+) dx, p.y (+) dy))
            /\ (/\ t = rotate(identity(last.buffer, last.this), last.this, 1)[last.this]
                /\ dx = Num(1)
                /\ dy = Num(0))
               => apply(buffer, last.this, Point(Num(0), Num(0))) = Point(Num(0), Num(1))

\* translate(1, 0) on the identity turned a quarter.
C5_Witness ==
    /\ Did("translate")
    /\ last.args = <<Num(1), Num(0)>>
    /\ last.buffer[last.this] = Ints(0, -1, 0, 1, 0, 0)
    /\ getX(buffer, last.this) = Num(0)
    /\ getY(buffer, last.this) = Num(1)

\* C6: scale(s) multiplies all six coefficients by s, the offsets c and f
\* too: after identity(), translate(dx, dy), scale(s) the matrix maps (0, 0)
\* to (s*dx, s*dy).
C6_ScaleAllSix ==
    Did("scale") =>
        LET t == last.buffer[last.this]
            s == last.args[1]
        IN  /\ \A i \in 0..5 : buffer[last.this][i] = t[i] ** s
            /\ \A d \in Offsets :
                  t = translate(identity(last.buffer, last.this), last.this,
                                d[1], d[2])[last.this]
                  => apply(buffer, last.this, Point(Num(0), Num(0))) =
                         Point(s ** d[1], s ** d[2])

\* identity(), translate(2, 0), scale(3): the matrix maps (0, 0) to (6, 0).
C6_Witness ==
    /\ Did("scale")
    /\ last.args = <<Num(3)>>
    /\ last.buffer[last.this] = Ints(1, 0, 2, 0, 1, 0)
    /\ apply(buffer, last.this, Point(Num(0), Num(0))) = Point(Num(6), Num(0))

\* C7: apply(point) sets point.x = a*x + b*y + c and point.y = d*x + e*y + f,
\* both from the x and y the point held at the call, returns the point and
\* leaves the matrix.
C7_ApplyPoint ==
    Did("apply") =>
        LET m == last.buffer[last.this]
            x == last.vector.x
            y == last.vector.y
        IN  /\ vector.x = ((m[0] ** x) (+) (m[1] ** y)) (+) m[2]
            /\ vector.y = ((m[3] ** x) (+) (m[4] ** y)) (+) m[5]
            /\ last.ret = "vector"
            /\ buffer = last.buffer

\* An apply that changes x, with a y that depends on x.
C7_Witness ==
    /\ Did("apply")
    /\ Finite(vector.x)
    /\ vector.x # last.vector.x
    /\ buffer[last.this][3] # Num(0)

\* C8: B.set(A), A another matrix, leaves in B the six coefficients A held
\* and leaves A; every call leaves the coefficients of every matrix other
\* than its receiver, so no later call on A changes B.
C8_SetCopies ==
    /\ DidOnAnother("set") =>
          /\ buffer[last.this] = last.buffer[last.other]
          /\ buffer[last.other] = last.buffer[last.other]
    /\ \A B \in Mats : B # last.this => buffer[B] = last.buffer[B]

\* A call that changes A after B held a copy of A: B keeps it.
C8_Witness ==
    /\ last.op \in {"translate", "translateAbsolute", "rotate", "scale",
                    "multiply", "invert", "identity", "set"}
    /\ buffer[last.this] # last.buffer[last.this]
    /\ \E B \in Mats \ {last.this} :
          /\ buffer[B] = last.buffer[last.this]
          /\ buffer[B] # NewBuffer

\* C9: identity() leaves a = e = 1 and b = c = d = f = 0 whatever the matrix
\* held, and apply on such a matrix leaves every point as it was.
C9_IdentityNeutral ==
    /\ Did("identity") =>
          /\ buffer[last.this] = IdentityCoefs
          /\ \A p \in TestPoints : apply(buffer, last.this, p) = p
    /\ (Did("apply") /\ last.buffer[last.this] = IdentityCoefs) =>
          vector = last.vector

\* identity() on a matrix that held other coefficients than the constructor's.
C9_Witness ==
    /\ Did("identity")
    /\ last.buffer[last.this] # NewBuffer
    /\ last.buffer[last.this] # IdentityCoefs

\* C10: m.multiply(m) leaves in m what m.multiply(k) leaves for another
\* matrix k holding the coefficients m held at the call.
C10_SelfMultiply ==
    (Did("multiply") /\ last.this = last.other) =>
        \A k \in Mats \ {last.this} :
            buffer[last.this] =
                multiply(set(last.buffer, k, last.this), last.this, k)[last.this]

====
